---- MODULE Spec2Model ----
(***************************************************************************)
(* ps2emu: model of ps2emu-replay (src/src/ps2emu-replay.c) and of          *)
(* ps2emu-record (src/src/ps2emu-record.c).                                *)
(*                                                                         *)
(* The replayer reads a stored log (version header, then event and section *)
(* lines), builds the event lists, opens the device endpoint and replays   *)
(* the lists against it.  The state below is the state of main() and of    *)
(* the functions it calls; the log file and the device endpoint are the    *)
(* environment, whose answers are drawn from small sets.                   *)
(***************************************************************************)
EXTENDS Integers, Sequences, FiniteSets, TLC

(* ------------------------------ bounds --------------------------------- *)

\* Lines parse_events reads after the version header, and the events among
\* them, when the whole replayer runs.
MaxLines == 4
MaxEvents == 2
\* The same for parse_events run on its own.
MaxParseLines == 6
MaxParseEvents == 3
\* Recorded timestamps are 0..MaxTime (microseconds, scaled).
MaxTime == 1
\* Data bytes are 0..MaxData.
MaxData == 1
\* Log versions a header may declare are -1..MaxVersion.
MaxVersion == 3
\* The monotonic clock may run MaxElapsed units on its own during one
\* replay_event_list call (sleeps advance it further).
MaxElapsed == 1
\* Lines of /dev/kmsg the recorder reads in one run.
MaxKmsgLines == 3
\* The timestamps of /dev/kmsg lines are 0..MaxKmsgTime.
MaxKmsgTime == 0
\* Ports are 0..MaxPort and IRQ lines 0..MaxIrq.
MaxPort == 1
MaxIrq == 1
\* Session correlation markers (start times) are 1..MaxStart.
MaxStart == 2

(* ---------------------------- constants -------------------------------- *)

\* Highest log version the replayer implements (ps2emu-misc.h).
PS2EMU_LOG_VERSION == 1

\* The null event pointer.
NULL == [kind |-> "NULL"]

Times == 0..MaxTime
Bytes == 0..MaxData
Versions == (0 - 1)..MaxVersion

\* PS2EventType
EventTypes == {"interrupt", "command", "parameter", "return", "kbd-data"}

(* ------------------------- the stored log ------------------------------ *)

\* First line of the log, as parse_log_version's read and sscanf see it:
\*   version n : "# ps2emu-record V<n>"
\*   nomatch   : a line sscanf cannot match up to a digit (returns 0)
\*   nonumber  : "# ps2emu-record V" and then only white space (returns EOF)
\*   eof       : the file is empty
\*   ioerror   : the read fails
Headers ==
    {[kind |-> "version", n |-> v] : v \in Versions}
    \cup {[kind |-> k, n |-> 0] : k \in {"nomatch", "nonumber", "eof", "ioerror"}}

\* The text after a line's source prefix: the events with times and data
\* bytes of the given sets, ...
EventPayloads(times, bytes) ==
    {[kind |-> "event", type |-> t, time |-> tm, data |-> d, has_data |-> TRUE] :
        t \in EventTypes, tm \in times, d \in bytes}
    \cup
    \* "[<time>] Interrupt <irq>, without any data": the data field holds
    \* whatever the event structure held.
    {[kind |-> "event", type |-> "interrupt", time |-> tm, data |-> d,
      has_data |-> FALSE] : tm \in times, d \in bytes}

\* ... the section markers, with a keyword that names no section, ...
SectionPayloads == {[kind |-> "section", name |-> n] : n \in {"Init", "Main", "Bogus"}}

\* ... an interrupt event with bad arguments, and any other text.
Payloads(times, bytes) ==
    EventPayloads(times, bytes) \cup SectionPayloads
    \cup {[kind |-> "malformed"], [kind |-> "other"]}

\* A line of the log: which source prefix it starts with, and the rest.
LinesOf(times, bytes) ==
    [prefix : {"event", "section", "none"}, payload : Payloads(times, bytes)]

\* The lines of the logs replayed, and of the longer logs parsed only (whose
\* events all carry time 0 and data 0: parse_events reads neither).
Lines == LinesOf(Times, Bytes)
ParseLines == LinesOf({0}, {0})

(* ------------------- line.h / event.h / section.h ---------------------- *)

\* get_line_type: the line's type by its source prefix.
get_line_type(line) ==
    CASE line.prefix = "event"   -> "LINE_TYPE_EVENT"
      [] line.prefix = "section" -> "LINE_TYPE_SECTION"
      [] OTHER                   -> "LINE_TYPE_INVALID"

\* What parse_events hands to the line parsers: the whole line in a legacy
\* log, the text after the prefix otherwise.
msg_start(line, version) ==
    IF version < 1 THEN line ELSE [prefix |-> "none", payload |-> line.payload]

\* ps2_event_from_line: the event a text holds, or NULL; error tells a
\* structural error (malformed interrupt arguments) from an unrecognised text.
\* The shapes are anchored at the start of the text.
ps2_event_from_line(msg) ==
    IF msg.prefix # "none" THEN [event |-> NULL, error |-> FALSE]
    ELSE CASE msg.payload.kind = "event"     -> [event |-> msg.payload, error |-> FALSE]
           [] msg.payload.kind = "malformed" -> [event |-> NULL, error |-> TRUE]
           [] OTHER                          -> [event |-> NULL, error |-> FALSE]

\* The keyword a text holds where a section marker is expected.
KeywordOf(payload) ==
    IF payload.kind = "section" THEN payload.name ELSE "Other"

\* section_type_from_line: the section a marker names.
section_type_from_line(msg) ==
    CASE KeywordOf(msg.payload) = "Init" -> "SECTION_TYPE_INIT"
      [] KeywordOf(msg.payload) = "Main" -> "SECTION_TYPE_MAIN"
      [] OTHER                           -> "SECTION_TYPE_ERROR"

(* ------------------------------ state ---------------------------------- *)

VARIABLES
    pc,               \* position in main()
    header,           \* the log's first line
    log_version,      \* main: log_version
    error,            \* main: GError *error ("none" is NULL)
    event_list,       \* static GSList *event_list (head first)
    init_event_list,  \* static GSList *init_event_list
    main_event_list,  \* static GSList *main_event_list
    event_list_dest,  \* parse_events: GSList **event_list_dest
    nlines,           \* how many lines parse_events has read
    marker,           \* the keyword of the last section line parse_events read
    nevents,          \* how many of those lines held an event
    replaying,        \* the list the current replay_event_list call walks
    l,                \* replay_event_list: the cursor l (what is left)
    now,              \* g_get_monotonic_time()
    start_time,       \* replay_event_list: start_time
    current_time,     \* simulate_interrupt: current_time
    dev               \* the device endpoint: every write and read, in order

listVars == <<event_list, init_event_list, main_event_list>>
parseVars == <<listVars, event_list_dest, nlines, marker, nevents>>
replayVars == <<replaying, l, start_time, current_time>>

\* The state of ps2emu-record.  Its main() shares pc, error and now with the
\* replayer's: the two programs never run in one behaviour.
VARIABLES
    record_kbd,       \* static gboolean record_kbd
    record_aux,       \* static gboolean record_aux
    rec_start_time,   \* static gint64 start_time of ps2emu-record.c (0: not set)
    res,              \* record: LogMsgParseResult res
    out,              \* standard output: the event records printed, in order
    debug,            \* /sys/module/i8042/parameters/debug: "0" or "1"
    off_writes,       \* how many times "0" was written to that parameter
    handlers,         \* the signals disable_i8042_debugging is installed for
    signalled,        \* the signal delivered to the process ("none": none yet)
    nread,            \* how many lines of /dev/kmsg record has read
    current_line,     \* get_next_module_line: the line read last
    record_rc,        \* record: GIOStatus rc
    call,             \* process_event's last call: the event as read, and
                      \* whether it was printed
    ref,              \* res of a reference run that is not shown the skipped lines
    out_ref           \* the output of that reference run

recVars == <<record_kbd, record_aux, rec_start_time, res, out, debug,
             off_writes, handlers, signalled, nread, current_line, record_rc,
             call, ref, out_ref>>

\* The variables of the replayer alone.
replayOnlyVars == <<header, log_version, parseVars, replayVars, dev>>

\* All the variables.
vars == <<pc, header, log_version, error, event_list, init_event_list,
          main_event_list, event_list_dest, nlines, marker, nevents,
          replaying, l,
          now, start_time, current_time, dev, recVars>>

(* --------------------- ps2emu-record: the line parsers ----------------- *)

KEYBOARD_PORT == 0

KmsgTimes == 0..MaxKmsgTime
Ports == 0..MaxPort
Irqs == 0..MaxIrq
\* g_get_monotonic_time() at the start of a recording is never 0.
StartTimes == 1..MaxStart

\* What a PS2EventType field may hold: a type, or no valid type when it was
\* never assigned.
TypeValues == EventTypes \cup {"garbage"}

\* The kind a data-bearing line names ("unknown": none of the five).
Kinds == EventTypes \cup {"unknown"}

\* A port or irq argument of an interrupt line, as strtol sees it: a decimal
\* number, a text with no leading digits, or a number out of range.
Args(values) ==
    {[kind |-> "num", v |-> v] : v \in values}
    \cup {[kind |-> "text", v |-> 0], [kind |-> "huge", v |-> 0]}

\* The lines of /dev/kmsg, by the source prefix found in them:
\*   none              neither "i8042: " nor "ps2emu: "
\*   i8042, normal     "[<time>] <data> <- i8042 (<kind>[,<args>])"; argc is
\*                     the number of comma-separated fields, the kind included
\*   i8042, nodata     "[<time>] Interrupt <irq>, without any data"
\*   i8042, other      any other text; sscanf may have stored the time, or
\*                     the time and the data byte, before it gave up
\*   ps2emu, start     "Start recording <start_time>"
\*   ps2emu, other     any other text
KmsgLines ==
    {[src |-> "none"]}
    \cup {[src |-> "i8042: ", shape |-> "normal", time |-> t, data |-> d, kind |-> k,
           argc |-> 1, port_arg |-> [kind |-> "num", v |-> 0],
           irq_arg |-> [kind |-> "num", v |-> 0]] :
            t \in KmsgTimes, d \in Bytes, k \in Kinds}
    \cup {[src |-> "i8042: ", shape |-> "normal", time |-> t, data |-> d,
           kind |-> "interrupt", argc |-> 2, port_arg |-> [kind |-> "num", v |-> 0],
           irq_arg |-> [kind |-> "num", v |-> 0]] : t \in KmsgTimes, d \in Bytes}
    \cup {[src |-> "i8042: ", shape |-> "normal", time |-> t, data |-> d,
           kind |-> "interrupt", argc |-> 3, port_arg |-> pa, irq_arg |-> ia] :
            t \in KmsgTimes, d \in Bytes, pa \in Args(Ports), ia \in Args(Irqs)}
    \cup {[src |-> "i8042: ", shape |-> "nodata", time |-> t, irq |-> i] :
            t \in KmsgTimes, i \in Irqs}
    \cup {[src |-> "i8042: ", shape |-> "other", partial |-> "none", time |-> 0, data |-> 0]}
    \cup {[src |-> "i8042: ", shape |-> "other", partial |-> "time", time |-> t, data |-> 0] :
            t \in KmsgTimes}
    \cup {[src |-> "i8042: ", shape |-> "other", partial |-> "time_data", time |-> t,
           data |-> d] : t \in KmsgTimes, d \in Bytes}
    \cup {[src |-> "ps2emu: ", shape |-> "start", start_time |-> t] : t \in StartTimes}
    \cup {[src |-> "ps2emu: ", shape |-> "other"]}

\* A PS2Event structure: its fields, and in set the names of those that have
\* been assigned (the others hold what the memory held).
UnsetEvent ==
    [type |-> "garbage", time |-> 0, data |-> 0, port |-> 0, irq |-> 0,
     has_data |-> FALSE, set |-> {}]

\* event->f = v
Assign(event, f, v) == [event EXCEPT ![f] = v, !.set = @ \cup {f}]

\* record's res before the first line.  start_time shares its storage with
\* event (a union); the model keeps the two apart: the bytes of event that
\* start_time overlays are assigned by every parse before they are read.
UnsetRes == [type |-> "unset", event |-> UnsetEvent, start_time |-> 0]

\* strtol(arg, NULL, 10): the value, and whether errno was set (ERANGE).  A
\* text without digits converts to 0 and leaves errno alone.
strtol(arg) ==
    CASE arg.kind = "num"  -> [value |-> arg.v, errno |-> FALSE]
      [] arg.kind = "text" -> [value |-> 0, errno |-> FALSE]
      [] OTHER             -> [value |-> MaxPort, errno |-> TRUE]

\* parse_normal_event, the interrupt branch, entered with the type assigned.
parse_normal_event_interrupt(e, line) ==
    LET port == strtol(line.port_arg)
        irq  == strtol(line.irq_arg)
        e3   == Assign(e, "port", port.value)
        e4   == Assign(e3, "irq", irq.value)
    IN  IF line.argc < 3 THEN [ok |-> FALSE, error |-> "Input", event |-> e]
        ELSE IF port.errno THEN [ok |-> FALSE, error |-> "Input", event |-> e3]
        ELSE IF irq.errno THEN [ok |-> FALSE, error |-> "Input", event |-> e4]
        ELSE [ok |-> TRUE, error |-> "none", event |-> Assign(e4, "has_data", TRUE)]

\* Mutant of PartialWrites: a line that matches neither shape clears the port.
PartialWritesPort(event, line) == Assign(event, "port", KEYBOARD_PORT)

\* What sscanf stored in the event before a line matched neither shape.
PartialWrites(event, line) ==
    IF line.shape # "other" \/ line.partial = "none" THEN event
    ELSE IF line.partial = "time" THEN Assign(event, "time", line.time)
    ELSE Assign(Assign(event, "time", line.time), "data", line.data)

\* parse_normal_event: ok, the error set, and the event structure after it.
parse_normal_event(event, line) ==
    IF line.shape # "normal"
      THEN [ok |-> FALSE, error |-> "none", event |-> PartialWrites(event, line)]
      ELSE LET e1 == Assign(Assign(event, "time", line.time), "data", line.data) IN
           CASE line.kind = "interrupt" ->
                  parse_normal_event_interrupt(Assign(e1, "type", "interrupt"), line)
             [] line.kind = "unknown" ->
                  [ok |-> TRUE, error |-> "none", event |-> Assign(e1, "has_data", TRUE)]
             [] OTHER ->
                  [ok |-> TRUE, error |-> "none",
                   event |-> Assign(Assign(e1, "type", line.kind), "has_data", TRUE)]

\* parse_interrupt_without_data: neither port nor data is assigned.
parse_interrupt_without_data(event, line) ==
    IF line.shape # "nodata"
      THEN [ok |-> FALSE, error |-> "none", event |-> PartialWrites(event, line)]
      ELSE [ok |-> TRUE, error |-> "none",
            event |-> Assign(Assign(Assign(Assign(event, "time", line.time),
                                           "irq", line.irq),
                                    "type", "interrupt"),
                             "has_data", FALSE)]

\* parse_record_start_marker
parse_record_start_marker(line) ==
    IF line.shape = "start" THEN [ok |-> TRUE, start_time |-> line.start_time]
                            ELSE [ok |-> FALSE, start_time |-> 0]

\* get_next_module_line and the body of parse_next_message's loop for one
\* line read: res after it, and what the line gave:
\*   "skip"   nothing, the loop reads on
\*   "event"  an event, "marker" a start marker (the loop breaks)
\*   "fail"   a structural error (goto fail: the status returned is that of
\*            the read, G_IO_STATUS_NORMAL)
parse_next_message(r, line) ==
    IF line.src = "none" THEN [res |-> r, got |-> "skip", error |-> "none"]
    ELSE IF line.src = "i8042: " THEN
      LET n == parse_normal_event(r.event, line)
          d == parse_interrupt_without_data(n.event, line)
      IN  IF n.ok THEN [res |-> [r EXCEPT !.type = line.src, !.event = n.event],
                        got |-> "event", error |-> "none"]
          ELSE IF n.error # "none"
                 THEN [res |-> [r EXCEPT !.type = line.src, !.event = n.event],
                       got |-> "fail", error |-> n.error]
          ELSE [res |-> [r EXCEPT !.type = line.src, !.event = d.event],
                got |-> IF d.ok THEN "event" ELSE "skip", error |-> "none"]
    ELSE
      LET m == parse_record_start_marker(line) IN
      IF m.ok THEN [res |-> [r EXCEPT !.type = line.src, !.start_time = m.start_time],
                    got |-> "marker", error |-> "none"]
              ELSE [res |-> [r EXCEPT !.type = line.src], got |-> "skip", error |-> "none"]

\* The values an event structure may be read as: an assigned field holds its
\* value, a field never assigned any value of its type.
Held(e) ==
    [type     : IF "type" \in e.set THEN {e.type} ELSE TypeValues,
     time     : IF "time" \in e.set THEN {e.time} ELSE KmsgTimes,
     data     : IF "data" \in e.set THEN {e.data} ELSE Bytes,
     port     : IF "port" \in e.set THEN {e.port} ELSE Ports,
     irq      : IF "irq" \in e.set THEN {e.irq} ELSE Irqs,
     has_data : IF "has_data" \in e.set THEN {e.has_data} ELSE BOOLEAN]

\* The structure e as read where memory holds g in the fields never assigned.
ReadAs(e, g) ==
    [f \in {"type", "time", "data", "port", "irq", "has_data"} |->
       IF f \in e.set THEN e[f] ELSE g[f]]

\* Mutant of process_event: the keyboard filter lets keyboard data through.
process_event_kbd_data(event, kbd, aux) ==
    IF ~kbd /\ event.type = "interrupt" /\ event.port = KEYBOARD_PORT
      THEN FALSE
    ELSE IF ~aux /\ event.type = "interrupt" /\ event.port # KEYBOARD_PORT
      THEN FALSE
    ELSE IF ~aux /\ event.type # "interrupt" /\ event.type # "kbd-data"
      THEN FALSE
    ELSE TRUE

\* Mutant of process_event: without the auxiliary port, commands get through.
process_event_commands(event, kbd, aux) ==
    IF ~kbd /\ event.type = "interrupt" /\ event.port = KEYBOARD_PORT
      THEN FALSE
    ELSE IF ~kbd /\ event.type = "kbd-data"
      THEN FALSE
    ELSE IF ~aux /\ event.type = "interrupt" /\ event.port # KEYBOARD_PORT
      THEN FALSE
    ELSE IF ~aux /\ event.type \notin {"interrupt", "kbd-data", "command"}
      THEN FALSE
    ELSE TRUE

\* process_event: whether the event is printed (it returns TRUE either way).
process_event(event, kbd, aux) ==
    IF ~kbd /\ event.type = "interrupt" /\ event.port = KEYBOARD_PORT
      THEN FALSE
    ELSE IF ~kbd /\ event.type = "kbd-data"
      THEN FALSE
    ELSE IF ~aux /\ event.type = "interrupt" /\ event.port # KEYBOARD_PORT
      THEN FALSE
    ELSE IF ~aux /\ event.type # "interrupt" /\ event.type # "kbd-data"
      THEN FALSE
    ELSE TRUE

\* ps2_event_to_string: the canonical text of an event, which holds the
\* fields of the event's shape only.
ps2_event_to_string(event) ==
    IF event.has_data
      THEN IF event.type = "interrupt"
             THEN [shape |-> "normal", time |-> event.time, data |-> event.data,
                   type |-> event.type, port |-> event.port, irq |-> event.irq]
             ELSE [shape |-> "normal", time |-> event.time, data |-> event.data,
                   type |-> event.type, port |-> 0, irq |-> 0]
      ELSE [shape |-> "nodata", time |-> event.time, data |-> 0,
            type |-> "interrupt", port |-> 0, irq |-> event.irq]

\* printf of the event when process_event lets it through.
Printed(output, event, kbd, aux) ==
    IF process_event(event, kbd, aux)
      THEN Append(output, ps2_event_to_string(event))
      ELSE output

\* What the unassigned GSList **event_list_dest may hold when it is first
\* read: an address that is no list ("wild") or, by chance, the address of
\* one of the three lists.  "unset" marks the local as not yet read or
\* assigned; the value is drawn at the first read and stays.
UninitDest == {"wild", "event_list", "init_event_list", "main_event_list"}

DestValues(dest) == IF dest = "unset" THEN UninitDest ELSE {dest}

\* The recorder's variables while the replayer runs, and before its main().
RecorderNotStarted ==
    /\ rec_start_time = 0
    /\ res = UnsetRes
    /\ out = <<>>
    /\ debug = "0"
    /\ off_writes = 0
    /\ handlers = {}
    /\ signalled = "none"
    /\ nread = 0
    /\ current_line = [src |-> "none"]
    /\ record_rc = "none"
    /\ call = [made |-> FALSE]
    /\ ref = UnsetRes
    /\ out_ref = <<>>

Init ==
    /\ record_kbd = FALSE
    /\ record_aux = TRUE
    /\ RecorderNotStarted
    /\ pc = "parse_log_version"
    /\ header \in Headers
    /\ log_version = 0
    /\ error = "none"
    /\ event_list = <<>>
    /\ init_event_list = <<>>
    /\ main_event_list = <<>>
    /\ event_list_dest = "unset"
    /\ nlines = 0
    /\ marker = "none"
    /\ nevents = 0
    /\ replaying = "none"
    /\ l = <<>>
    /\ now = 0
    /\ start_time = 0
    /\ current_time = 0
    /\ dev = <<>>

(* --------------------------- helpers ----------------------------------- *)

RECURSIVE g_slist_reverse(_)
g_slist_reverse(s) ==
    IF s = <<>> THEN <<>> ELSE Append(g_slist_reverse(Tail(s)), Head(s))

g_slist_prepend(s, e) == <<e>> \o s

\* main's error label: prints error->message and returns 1; with no error
\* set, error->message dereferences NULL.
ErrorExit(err) == IF err = "none" THEN "crash" ELSE "exit1"

(* ----------------------- parse_log_version ----------------------------- *)

\* parse_log_version's result for first line h; garbage is what the
\* unassigned local log_version holds when sscanf stores nothing and
\* reports no mismatch (parse_count = EOF).
parse_log_version(h, garbage) ==
    CASE h.kind = "ioerror"  -> [version |-> 0 - 1, error |-> "IO"]
      [] h.kind = "eof"      -> [version |-> 0 - 1, error |-> "NoEvents"]
      [] h.kind = "nomatch"  -> [version |-> 0 - 1, error |-> "InvalidVersion"]
      [] h.kind = "nonumber" -> [version |-> garbage, error |-> "none"]
      [] OTHER               -> [version |-> h.n, error |-> "none"]

\* Mutant of LogVersionTooNew: off by one.
LogVersionTooNewByTwo(version) == version > PS2EMU_LOG_VERSION + 1

\* main: log_version > PS2EMU_LOG_VERSION
LogVersionTooNew(version) == version > PS2EMU_LOG_VERSION

\* main: parse the version line and refuse a log that is too new.
ParseLogVersion ==
    /\ pc = "parse_log_version"
    /\ \E garbage \in Versions :
         LET r == parse_log_version(header, garbage) IN
         /\ log_version' = r.version
         /\ IF LogVersionTooNew(r.version)
              THEN error' = "TooNew" /\ pc' = "exit1"
              ELSE error' = r.error /\ pc' = "parse_events"
    /\ UNCHANGED <<recVars, header, parseVars, replayVars, now, dev>>

(* --------------------------- parse_events ------------------------------ *)

\* parse_events: the line type of a line (a legacy log holds events only).
LineTypeOf(line, version) ==
    IF version < 1 THEN "LINE_TYPE_EVENT" ELSE get_line_type(line)

\* parse_events: where an event goes (a legacy log has the one list).
DestOf(version, dest) ==
    IF version < 1 THEN "event_list" ELSE dest

\* parse_events: the list a section marker selects.
SectionDest(section_type) ==
    IF section_type = "SECTION_TYPE_INIT" THEN "init_event_list" ELSE "main_event_list"

\* The event structure of a payload.  seq, the event's place among the
\* events of the log, stands for the structure's address; sect is the
\* section marker in force where its line stands.
PS2Event(payload, seq, sect) ==
    [type |-> payload.type, time |-> payload.time, data |-> payload.data,
     has_data |-> payload.has_data, seq |-> seq, sect |-> sect]

\* *event_list_dest = g_slist_prepend(*event_list_dest, event), by list.
PrependTo(dest, name, list, event) ==
    IF dest = name THEN g_slist_prepend(list, event) ELSE list

\* Mutant of FinalLists: the lists are left as the prepends built them.
FinalListsNoReverse(version, el, il, ml) ==
    [event_list |-> el, init_event_list |-> il, main_event_list |-> ml]

\* parse_events, end of input: the lists as the final reverse leaves them.
FinalLists(version, el, il, ml) ==
    IF version >= 1
      THEN [event_list |-> el,
            init_event_list |-> g_slist_reverse(il),
            main_event_list |-> g_slist_reverse(ml)]
      ELSE [event_list |-> g_slist_reverse(el),
            init_event_list |-> il,
            main_event_list |-> ml]

\* g_io_channel_read_line refuses to run with an error already set, so the
\* loop reads lines only while error is NULL.
CanReadLine(maxLines) ==
    /\ pc = "parse_events"
    /\ error = "none"
    /\ nlines < maxLines

\* One iteration: a line that holds an event, which is prepended to the
\* destination list.  Through a wild destination the store faults.
ParseEventLine(lineSet, maxLines, maxEvents) ==
    /\ CanReadLine(maxLines)
    /\ nevents < maxEvents
    /\ \E line \in lineSet, held \in DestValues(event_list_dest) :
         LET r     == ps2_event_from_line(msg_start(line, log_version))
             dest  == DestOf(log_version, held)
             event == PS2Event(r.event, nevents + 1, marker)
         IN
         /\ LineTypeOf(line, log_version) = "LINE_TYPE_EVENT"
         /\ r.event # NULL
         /\ nlines' = nlines + 1
         /\ nevents' = nevents + 1
         /\ event_list_dest' = dest
         /\ event_list' = PrependTo(dest, "event_list", event_list, event)
         /\ init_event_list' = PrependTo(dest, "init_event_list", init_event_list, event)
         /\ main_event_list' = PrependTo(dest, "main_event_list", main_event_list, event)
         /\ pc' = IF dest = "wild" THEN "crash" ELSE "parse_events"
    /\ UNCHANGED <<recVars, header, log_version, error, marker, replayVars, now, dev>>

\* One iteration: an event line that holds no event and raised no error.
SkipEventLine(lineSet, maxLines) ==
    /\ CanReadLine(maxLines)
    /\ \E line \in lineSet :
         LET r == ps2_event_from_line(msg_start(line, log_version)) IN
         /\ LineTypeOf(line, log_version) = "LINE_TYPE_EVENT"
         /\ r.event = NULL
         /\ ~r.error
    /\ nlines' = nlines + 1
    /\ event_list_dest' = DestOf(log_version, event_list_dest)
    /\ UNCHANGED <<recVars, pc, header, log_version, error, event_list, init_event_list,
                   main_event_list, marker, nevents, replayVars, now, dev>>

\* One iteration: an event line with a structural error.
BadEventLine(lineSet, maxLines) ==
    /\ CanReadLine(maxLines)
    /\ \E line \in lineSet :
         LET r == ps2_event_from_line(msg_start(line, log_version)) IN
         /\ LineTypeOf(line, log_version) = "LINE_TYPE_EVENT"
         /\ r.event = NULL
         /\ r.error
    /\ nlines' = nlines + 1
    /\ event_list_dest' = DestOf(log_version, event_list_dest)
    /\ error' = "InvalidEvent"
    /\ pc' = "exit1"
    /\ UNCHANGED <<recVars, header, log_version, event_list, init_event_list,
                   main_event_list, marker, nevents, replayVars, now, dev>>

\* Mutant of SectionStep: a marker that names no section is skipped.
SectionStepSkip(section_type, dest) ==
    IF section_type = "SECTION_TYPE_ERROR"
      THEN [ok |-> TRUE, dest |-> dest]
      ELSE [ok |-> TRUE, dest |-> SectionDest(section_type)]

\* What a section line does to parse_events: the new destination, or failure.
SectionStep(section_type, dest) ==
    IF section_type = "SECTION_TYPE_ERROR"
      THEN [ok |-> FALSE, dest |-> dest]
      ELSE [ok |-> TRUE, dest |-> SectionDest(section_type)]

\* One iteration: a section line.
ParseSectionLine(lineSet, maxLines) ==
    /\ CanReadLine(maxLines)
    /\ \E line \in lineSet :
         LET section_type == section_type_from_line(msg_start(line, log_version))
             step == SectionStep(section_type, event_list_dest)
         IN
         /\ LineTypeOf(line, log_version) = "LINE_TYPE_SECTION"
         /\ nlines' = nlines + 1
         /\ event_list_dest' = step.dest
         /\ marker' = KeywordOf(line.payload)
         /\ IF step.ok
              THEN UNCHANGED <<pc, error>>
              ELSE error' = "InvalidSection" /\ pc' = "exit1"
    /\ UNCHANGED <<recVars, header, log_version, event_list, init_event_list,
                   main_event_list, nevents, replayVars, now, dev>>

\* One iteration: a line of no known type.
InvalidLine(lineSet, maxLines) ==
    /\ CanReadLine(maxLines)
    /\ \E line \in lineSet : LineTypeOf(line, log_version) = "LINE_TYPE_INVALID"
    /\ nlines' = nlines + 1
    /\ error' = "InvalidLine"
    /\ pc' = "exit1"
    /\ UNCHANGED <<recVars, header, log_version, listVars, event_list_dest, marker,
                   nevents, replayVars, now, dev>>

\* The read reports end of input: the lists are reversed and parse_events
\* succeeds.  Its locals end with it, and main drops the input channel.
EndOfInput ==
    /\ pc = "parse_events"
    /\ error = "none"
    /\ LET f == FinalLists(log_version, event_list, init_event_list, main_event_list) IN
         /\ event_list' = f.event_list
         /\ init_event_list' = f.init_event_list
         /\ main_event_list' = f.main_event_list
    /\ event_list_dest' = "unset"
    /\ marker' = "none"
    /\ nlines' = 0
    /\ pc' = "open"
    /\ UNCHANGED <<recVars, header, log_version, error, nevents, replayVars, now, dev>>

\* The read fails: at once when main enters parse_events with the version
\* error still set, otherwise when the channel reports an error.
ReadError ==
    /\ pc = "parse_events"
    /\ error' = IF error = "none" THEN "IO" ELSE error
    /\ pc' = "exit1"
    /\ UNCHANGED <<recVars, header, log_version, parseVars, replayVars, now, dev>>

(* ------------------------- the device endpoint ------------------------- *)

SERIO_8042 == 1

\* What a write to and a read from the blocking, unbuffered channel return.
WriteStatus == {"G_IO_STATUS_NORMAL", "G_IO_STATUS_ERROR"}
ReadStatus == {"G_IO_STATUS_NORMAL", "G_IO_STATUS_EOF", "G_IO_STATUS_ERROR"}

\* GLib sets the error for G_IO_STATUS_ERROR only.
ErrorOf(rc) == IF rc = "G_IO_STATUS_ERROR" THEN "IO" ELSE "none"

\* send_ps2emu_cmd: one write of the two bytes {type, data}.  seq names the
\* event the frame is for (0: none), elapsed the time since start_time.
send_ps2emu_cmd(type, data, rc, seq, elapsed) ==
    [op |-> "write", type |-> type, data |-> data, rc |-> rc,
     seq |-> seq, elapsed |-> elapsed]

\* simulate_receive's g_io_channel_read_chars of one byte, for event seq.
read_chars(data, rc, seq) ==
    [op |-> "read", type |-> "none", data |-> data, rc |-> rc,
     seq |-> seq, elapsed |-> 0]

\* Mutant of OpenDevice: main goes on to the BEGIN frame at once.
OpenDeviceThenBegin ==
    /\ pc = "open"
    /\ \E ok \in BOOLEAN :
         IF ok THEN pc' = "begin" /\ UNCHANGED error
               ELSE pc' = "exit1" /\ error' = "IO"
    /\ UNCHANGED <<recVars, header, log_version, parseVars, replayVars, now, dev>>

\* main: open /dev/ps2emu, unset its encoding and buffering.
OpenDevice ==
    /\ pc = "open"
    /\ \E ok \in BOOLEAN :
         IF ok THEN pc' = "set_port_type" /\ UNCHANGED error
               ELSE pc' = "exit1" /\ error' = "IO"
    /\ UNCHANGED <<recVars, header, log_version, parseVars, replayVars, now, dev>>

\* Mutant of FirstList: the main list is taken first.
FirstListMainFirst(version) ==
    IF version = 0 THEN "event_list" ELSE "main_event_list"

\* main: the first list to replay once the device has begun.
FirstList(version) ==
    IF version = 0 THEN "event_list" ELSE "init_event_list"

\* main: send SET_PORT_TYPE, then BEGIN.
SetupDevice ==
    /\ pc \in {"set_port_type", "begin"}
    /\ \E rc \in WriteStatus :
         /\ dev' = Append(dev, send_ps2emu_cmd(
                      IF pc = "set_port_type" THEN "PS2EMU_CMD_SET_PORT_TYPE"
                                              ELSE "PS2EMU_CMD_BEGIN",
                      SERIO_8042, rc, 0, 0))
         /\ IF rc # "G_IO_STATUS_NORMAL"
              THEN /\ error' = ErrorOf(rc)
                   /\ pc' = ErrorExit(error')
                   /\ UNCHANGED replaying
              ELSE /\ UNCHANGED error
                   /\ IF pc = "set_port_type"
                        THEN pc' = "begin" /\ UNCHANGED replaying
                        ELSE pc' = "replay_event_list"
                             /\ replaying' = FirstList(log_version)
    /\ UNCHANGED <<recVars, header, log_version, parseVars, l, start_time, current_time, now>>

(* -------------------------- replay_event_list -------------------------- *)

ListNamed(name) ==
    CASE name = "event_list"      -> event_list
      [] name = "init_event_list" -> init_event_list
      [] OTHER                    -> main_event_list

\* replay_event_list, entry: take the start time, start at the list's head.
ReplayEventList ==
    /\ pc = "replay_event_list"
    /\ start_time' = now
    /\ l' = ListNamed(replaying)
    /\ pc' = "loop"
    /\ UNCHANGED <<recVars, header, log_version, error, parseVars, replaying,
                   current_time, now, dev>>

\* Mutant of MustSleep: sleeps only when more than one unit early.
MustSleepLate(current, event) == current + 1 < event.time

\* simulate_interrupt: whether to sleep before the frame.
MustSleep(current, event) == current < event.time

\* Mutant of SleepFor: the sleep is one unit short.
SleepForShort(current, event) == event.time - current - 1

\* simulate_interrupt: the argument of g_usleep.
SleepFor(current, event) == event.time - current

\* The loop takes an Interrupt event; simulate_interrupt reads the clock.
ReadClock ==
    /\ pc = "loop"
    /\ l # <<>>
    /\ Head(l).type = "interrupt"
    /\ current_time' = now - start_time
    /\ pc' = IF MustSleep(current_time', Head(l)) THEN "usleep" ELSE "send_interrupt"
    /\ UNCHANGED <<recVars, header, log_version, error, parseVars, replaying, l,
                   start_time, now, dev>>

\* g_usleep returns once the time asked for has passed (Tick makes it late).
Usleep ==
    /\ pc = "usleep"
    /\ now' = now + SleepFor(current_time, Head(l))
    /\ pc' = "send_interrupt"
    /\ UNCHANGED <<recVars, header, log_version, error, parseVars, replayVars, dev>>

\* Mutant of InterruptFrame: the frame carries the event's time, not its data.
InterruptFrameTime(event, rc, elapsed) ==
    send_ps2emu_cmd("PS2EMU_CMD_SEND_INTERRUPT", event.time, rc, event.seq, elapsed)

\* simulate_interrupt: the frame of an Interrupt event.
InterruptFrame(event, rc, elapsed) ==
    send_ps2emu_cmd("PS2EMU_CMD_SEND_INTERRUPT", event.data, rc, event.seq, elapsed)

\* replay_event_list: the cursor after an event (l = l->next).
NextCursor(cursor) == Tail(cursor)

\* simulate_interrupt sends the frame; a failure ends the replay.
SendInterrupt ==
    /\ pc = "send_interrupt"
    /\ \E rc \in WriteStatus :
         /\ dev' = Append(dev, InterruptFrame(Head(l), rc, now - start_time))
         /\ IF rc # "G_IO_STATUS_NORMAL"
              THEN /\ error' = ErrorOf(rc)
                   /\ pc' = ErrorExit(error')
                   /\ UNCHANGED l
              ELSE /\ pc' = "loop"
                   /\ l' = NextCursor(l)
                   /\ UNCHANGED error
    /\ UNCHANGED <<recVars, header, log_version, parseVars, replaying, start_time,
                   current_time, now>>

\* Mutant of ReceiveOk: a byte other than the event's ends the replay.
ReceiveOkIfEqual(rc, event, data) ==
    rc = "G_IO_STATUS_NORMAL" /\ data = event.data

\* simulate_receive: whether the read lets the replay go on.  The byte read
\* is compared with the event's only to print the one or the other message.
ReceiveOk(rc, event, data) == rc = "G_IO_STATUS_NORMAL"

\* Mutant of SimulateReceive: the read gives up once time has passed, and
\* the replay goes on to the next event.
SimulateReceiveTimeout ==
    /\ pc = "loop"
    /\ l # <<>>
    /\ Head(l).type # "interrupt"
    /\ \/ \E rc \in ReadStatus, data \in Bytes :
            /\ dev' = Append(dev, read_chars(data, rc, Head(l).seq))
            /\ IF ReceiveOk(rc, Head(l), data)
                 THEN /\ pc' = "loop"
                      /\ l' = NextCursor(l)
                      /\ UNCHANGED error
                 ELSE /\ error' = ErrorOf(rc)
                      /\ pc' = ErrorExit(error')
                      /\ UNCHANGED l
       \/ /\ now - start_time > 0
          /\ pc' = "loop"
          /\ l' = NextCursor(l)
          /\ UNCHANGED <<error, dev>>
    /\ UNCHANGED <<recVars, header, log_version, parseVars, replaying, start_time,
                   current_time, now>>

\* The loop takes another event; simulate_receive reads one byte.
SimulateReceive ==
    /\ pc = "loop"
    /\ l # <<>>
    /\ Head(l).type # "interrupt"
    /\ \E rc \in ReadStatus, data \in Bytes :
         /\ dev' = Append(dev, read_chars(data, rc, Head(l).seq))
         /\ IF ReceiveOk(rc, Head(l), data)
              THEN /\ pc' = "loop"
                   /\ l' = NextCursor(l)
                   /\ UNCHANGED error
              ELSE /\ error' = ErrorOf(rc)
                   /\ pc' = ErrorExit(error')
                   /\ UNCHANGED l
    /\ UNCHANGED <<recVars, header, log_version, parseVars, replaying, start_time,
                   current_time, now>>

\* main: what follows a list that was replayed: the main list after the
\* init list, the end otherwise.
NextList(name) ==
    IF name = "init_event_list" THEN "main_event_list" ELSE "none"

\* replay_event_list returns TRUE at the end of the list; main goes on.
ReplayReturn ==
    /\ pc = "loop"
    /\ l = <<>>
    /\ replaying' = NextList(replaying)
    /\ pc' = IF replaying' = "none" THEN "exit0" ELSE "replay_event_list"
    /\ UNCHANGED <<recVars, header, log_version, error, parseVars, l, start_time,
                   current_time, now, dev>>

\* The monotonic clock advances while a list is replayed.
Tick ==
    /\ pc \in {"loop", "usleep", "send_interrupt"}
    /\ now - start_time < MaxElapsed
    /\ now' = now + 1
    /\ UNCHANGED <<recVars, pc, header, log_version, error, parseVars, replayVars, dev>>

(* --------------------------- specification ----------------------------- *)

Next ==
    \/ ParseLogVersion
    \/ ParseEventLine(Lines, MaxLines, MaxEvents)
    \/ SkipEventLine(Lines, MaxLines)
    \/ BadEventLine(Lines, MaxLines)
    \/ ParseSectionLine(Lines, MaxLines)
    \/ InvalidLine(Lines, MaxLines)
    \/ EndOfInput
    \/ ReadError
    \/ OpenDevice
    \/ SetupDevice
    \/ ReplayEventList
    \/ ReadClock
    \/ Usleep
    \/ SendInterrupt
    \/ SimulateReceive
    \/ ReplayReturn
    \/ Tick

Spec == Init /\ [][Next]_vars

\* parse_events on its own, on longer logs: the version line, then the loop
\* up to its return.
NextParse ==
    \/ ParseLogVersion
    \/ ParseEventLine(ParseLines, MaxParseLines, MaxParseEvents)
    \/ SkipEventLine(ParseLines, MaxParseLines)
    \/ BadEventLine(ParseLines, MaxParseLines)
    \/ ParseSectionLine(ParseLines, MaxParseLines)
    \/ InvalidLine(ParseLines, MaxParseLines)
    \/ EndOfInput
    \/ ReadError

SpecParse == Init /\ [][NextParse]_vars

(* ------------------------- ps2emu-record: main ------------------------- *)

\* The replayer's variables while the recorder runs.
ReplayerNotStarted ==
    /\ header = [kind |-> "eof", n |-> 0]
    /\ log_version = 0
    /\ event_list = <<>>
    /\ init_event_list = <<>>
    /\ main_event_list = <<>>
    /\ event_list_dest = "unset"
    /\ nlines = 0
    /\ marker = "none"
    /\ nevents = 0
    /\ replaying = "none"
    /\ l = <<>>
    /\ start_time = 0
    /\ current_time = 0
    /\ dev = <<>>

\* main of ps2emu-record once the options are parsed: at least one of the
\* two ports is recorded.
InitRecord ==
    /\ pc = "detach"
    /\ error = "none"
    /\ now = 0
    /\ record_kbd \in BOOLEAN
    /\ record_aux \in BOOLEAN
    /\ record_kbd \/ record_aux
    /\ RecorderNotStarted
    /\ ReplayerNotStarted

\* The recorder's variables that only record() changes.
pipeVars == <<res, out, nread, current_line, record_rc, call, ref, out_ref>>

\* enable_i8042_debugging: the devices are detached.
Detach ==
    /\ pc = "detach"
    /\ \E ok \in BOOLEAN :
         IF ok THEN pc' = "write_marker" /\ UNCHANGED error
               ELSE pc' = "exit1" /\ error' = "IO"
    /\ UNCHANGED <<replayOnlyVars, now, record_kbd, record_aux, rec_start_time,
                   pipeVars, debug, off_writes, handlers, signalled>>

\* enable_i8042_debugging: start_time is taken and the marker
\* "ps2emu: Start recording <start_time>" is written to /dev/kmsg.
WriteMarker ==
    /\ pc = "write_marker"
    /\ \E t \in StartTimes, ok \in BOOLEAN :
         /\ rec_start_time' = t
         /\ IF ok THEN pc' = "enable_debug" /\ UNCHANGED error
                  ELSE pc' = "exit1" /\ error' = "IO"
    /\ UNCHANGED <<replayOnlyVars, now, record_kbd, record_aux,
                   pipeVars, debug, off_writes, handlers, signalled>>

\* enable_i8042_debugging: "1" is written to the i8042 debug parameter.
EnableDebug ==
    /\ pc = "enable_debug"
    /\ \E ok \in BOOLEAN :
         IF ok THEN pc' = "reattach" /\ debug' = "1" /\ UNCHANGED error
               ELSE pc' = "exit1" /\ error' = "IO" /\ UNCHANGED debug
    /\ UNCHANGED <<replayOnlyVars, now, record_kbd, record_aux, rec_start_time,
                   pipeVars, off_writes, handlers, signalled>>

\* enable_i8042_debugging: the devices are attached again.
Reattach ==
    /\ pc = "reattach"
    /\ \E ok \in BOOLEAN :
         IF ok THEN pc' = "sigaction" /\ UNCHANGED error
               ELSE pc' = "exit1" /\ error' = "IO"
    /\ UNCHANGED <<replayOnlyVars, now, record_kbd, record_aux, rec_start_time,
                   pipeVars, debug, off_writes, handlers, signalled>>

\* The signals main installs disable_i8042_debugging for, in its order.
Signals == <<"SIGINT", "SIGTERM", "SIGHUP">>

\* main: the next sigaction call.
Sigaction ==
    /\ pc = "sigaction"
    /\ handlers' = handlers \cup {Signals[Cardinality(handlers) + 1]}
    /\ pc' = IF Cardinality(handlers') = Len(Signals) THEN "record" ELSE "sigaction"
    /\ UNCHANGED <<replayOnlyVars, error, now, record_kbd, record_aux, rec_start_time,
                   pipeVars, debug, off_writes, signalled>>

\* Where the process can take a signal: anywhere before it has ended.
Running == pc \notin {"exit0", "exit1", "killed", "handler"}

\* A signal is delivered: the handler runs if main has installed it, the
\* default action ends the process otherwise.
Signal ==
    /\ Running
    /\ signalled = "none"
    /\ \E sig \in {Signals[i] : i \in 1..Len(Signals)} :
         /\ signalled' = sig
         /\ pc' = IF sig \in handlers THEN "handler" ELSE "killed"
    /\ UNCHANGED <<replayOnlyVars, error, now, record_kbd, record_aux, rec_start_time,
                   pipeVars, debug, off_writes, handlers>>

\* disable_i8042_debugging: "0" is written to the debug parameter (a failure
\* only warns), then exit(0).
DisableDebug ==
    /\ pc = "handler"
    /\ \E ok \in BOOLEAN :
         IF ok THEN debug' = "0" /\ off_writes' = off_writes + 1
               ELSE UNCHANGED <<debug, off_writes>>
    /\ pc' = "exit0"
    /\ UNCHANGED <<replayOnlyVars, error, now, record_kbd, record_aux, rec_start_time,
                   pipeVars, handlers, signalled>>

(* ------------------------ ps2emu-record: record ------------------------ *)

\* record: /dev/kmsg is opened; with start_time set the marker is looked for.
RecordOpen ==
    /\ pc = "record"
    /\ \E ok \in BOOLEAN :
         IF ok THEN pc' = (IF rec_start_time # 0 THEN "discard" ELSE "steady")
                    /\ UNCHANGED error
               ELSE pc' = "exit1" /\ error' = "IO"
    /\ UNCHANGED <<replayOnlyVars, now, record_kbd, record_aux, rec_start_time,
                   pipeVars, debug, off_writes, handlers, signalled>>

\* g_io_channel_read_line refuses to run with an error already set.
CanReadKmsg ==
    /\ error = "none"
    /\ nread < MaxKmsgLines

\* The statuses a read that gives no line may return.
NoLineStatus(err) ==
    IF err = "none" THEN {"G_IO_STATUS_EOF", "G_IO_STATUS_ERROR"}
                    ELSE {"G_IO_STATUS_ERROR"}

\* The reference run is shown every line but those the recorder skips.
RefAfter(r, line) ==
    IF parse_next_message(res, line).got = "skip" THEN r
    ELSE parse_next_message(r, line).res

\* Mutant of MarkerFound: any start marker ends the search.
MarkerFoundAny(r, start) == r.type # "i8042: "

\* record, first loop: whether the message returned is this run's marker.
MarkerFound(r, start) == r.type # "i8042: " /\ r.start_time = start

\* record, first loop: a line is read.  parse_next_message reads on after a
\* line that gives nothing; an event, or a line with a structural error, is
\* dropped; the marker of this run ends the loop.
DiscardLine ==
    /\ pc = "discard"
    /\ CanReadKmsg
    /\ \E line \in KmsgLines :
         LET r == parse_next_message(res, line) IN
         /\ current_line' = line
         /\ record_rc' = "G_IO_STATUS_NORMAL"
         /\ res' = r.res
         /\ ref' = RefAfter(ref, line)
         /\ error' = r.error
         /\ pc' = IF r.got # "skip" /\ MarkerFound(r.res, rec_start_time)
                    THEN "steady" ELSE "discard"
    /\ nread' = nread + 1
    /\ UNCHANGED <<replayOnlyVars, now, record_kbd, record_aux, rec_start_time,
                   out, out_ref, call, debug, off_writes, handlers, signalled>>

\* Mutant of record_result: the first loop's end is no failure.
record_result_true(phase) == TRUE

\* record: what it returns when a loop ends on a status other than NORMAL:
\* FALSE from the first loop, TRUE after the second.
record_result(phase) == phase # "discard"

\* main: the exit code after record.
MainExit(rc) == IF rc THEN "exit0" ELSE "exit1"

\* record's error when its first loop ends: GLib has set the error of a
\* failed read, and g_set_error_literal does not replace an error.
NoEventsError(err, rc) ==
    IF err # "none" THEN err
    ELSE IF rc = "G_IO_STATUS_ERROR" THEN "IO" ELSE "NoEvents"

\* record, first loop: the read gives no line.
DiscardEnd ==
    /\ pc = "discard"
    /\ \E rc \in NoLineStatus(error) :
         /\ record_rc' = rc
         /\ error' = NoEventsError(error, rc)
    /\ pc' = MainExit(record_result("discard"))
    /\ UNCHANGED <<replayOnlyVars, now, record_kbd, record_aux, rec_start_time,
                   res, out, nread, current_line, call, ref, out_ref,
                   debug, off_writes, handlers, signalled>>

\* record, second loop: a line is read.  Whatever parse_next_message returns
\* with G_IO_STATUS_NORMAL and the i8042 source goes to process_event: an
\* event, and also the structure a structural error left behind.
SteadyLine ==
    /\ pc = "steady"
    /\ CanReadKmsg
    /\ \E line \in KmsgLines :
         LET r == parse_next_message(res, line)
             f == RefAfter(ref, line)
         IN
         /\ current_line' = line
         /\ record_rc' = "G_IO_STATUS_NORMAL"
         /\ res' = r.res
         /\ ref' = f
         /\ error' = r.error
         /\ IF r.got \in {"event", "fail"}
              THEN \E g \in Held([r.res.event EXCEPT !.set = @ \cap f.event.set]) :
                     LET event == ReadAs(r.res.event, g) IN
                     /\ call' = [made |-> TRUE, event |-> event,
                                 printed |-> process_event(event, record_kbd, record_aux)]
                     /\ out' = Printed(out, event, record_kbd, record_aux)
                     /\ out_ref' = Printed(out_ref, ReadAs(f.event, g),
                                           record_kbd, record_aux)
              ELSE UNCHANGED <<out, out_ref, call>>
    /\ nread' = nread + 1
    /\ UNCHANGED <<replayOnlyVars, pc, now, record_kbd, record_aux, rec_start_time,
                   debug, off_writes, handlers, signalled>>

\* record, second loop: the read gives no line, or fails at once because a
\* structural error is set; record returns TRUE.
SteadyEnd ==
    /\ pc = "steady"
    /\ \E rc \in NoLineStatus(error) :
         /\ record_rc' = rc
         /\ error' = IF error # "none" THEN error ELSE ErrorOf(rc)
    /\ pc' = MainExit(record_result("steady"))
    /\ UNCHANGED <<replayOnlyVars, now, record_kbd, record_aux, rec_start_time,
                   res, out, nread, current_line, call, ref, out_ref,
                   debug, off_writes, handlers, signalled>>

NextRecord ==
    \/ Detach
    \/ WriteMarker
    \/ EnableDebug
    \/ Reattach
    \/ Sigaction
    \/ Signal
    \/ DisableDebug
    \/ RecordOpen
    \/ DiscardLine
    \/ DiscardEnd
    \/ SteadyLine
    \/ SteadyEnd

SpecRecord == InitRecord /\ [][NextRecord]_vars

(* ------------------------------ claims --------------------------------- *)

SeqToSet(s) == {s[i] : i \in 1..Len(s)}

\* The events of the three lists, and the one with a given seq.
AllEvents ==
    SeqToSet(event_list) \cup SeqToSet(init_event_list) \cup SeqToSet(main_event_list)

EventBySeq(n) == CHOOSE e \in AllEvents : e.seq = n

\* The device I/O done for events: all but the SET_PORT_TYPE and BEGIN frames.
EventIO == SelectSeq(dev, LAMBDA r : r.seq # 0)

\* The events a replay is to go through, in order: init then main for a
\* version >= 1 log, the one list for a version 0 log.
ReplayOrder ==
    IF log_version >= 1 THEN init_event_list \o main_event_list
    ELSE IF log_version = 0 THEN event_list
    ELSE <<>>

\* C1: the device I/O actions follow the events of the parsed sequence in
\* order, one action per event: the i-th action is for the i-th event (a
\* frame write for an Interrupt, a byte read for any other), and for a
\* version >= 1 log the sequence is init followed by main, so that no main
\* event is replayed before every init event has been.
C1_ReplayInOrder ==
    /\ Len(EventIO) <= Len(ReplayOrder)
    /\ \A i \in 1..Len(EventIO) :
         /\ EventIO[i].seq = ReplayOrder[i].seq
         /\ (EventIO[i].op = "write") <=> (ReplayOrder[i].type = "interrupt")
    /\ \A i, j \in 1..Len(EventIO) :
         (/\ log_version >= 1
          /\ EventBySeq(EventIO[i].seq) \in SeqToSet(main_event_list)
          /\ EventBySeq(EventIO[j].seq) \in SeqToSet(init_event_list)) => j < i

\* C1 witness: a version >= 1 replay that ran to its end through an init
\* event and then a main event.
C1_Witness ==
    /\ pc = "exit0"
    /\ log_version >= 1
    /\ Len(init_event_list) = 1
    /\ Len(main_event_list) = 1
    /\ Len(EventIO) = 2
    /\ EventIO[1].seq = init_event_list[1].seq
    /\ EventIO[2].seq = main_event_list[1].seq

\* C2: no SEND_INTERRUPT frame goes out while the time elapsed since the
\* start timestamp of the replay_event_list call is smaller than the event's
\* time, and simulate_interrupt sleeps only when the elapsed time it read is
\* smaller than the event's time (otherwise the frame is written at once).
C2_InterruptNotEarly ==
    /\ \A i \in 1..Len(dev) :
         dev[i].type = "PS2EMU_CMD_SEND_INTERRUPT"
           => dev[i].elapsed >= EventBySeq(dev[i].seq).time
    /\ pc = "usleep" => current_time < Head(l).time
    /\ pc = "send_interrupt" => now - start_time >= Head(l).time

\* C2 witness: the frame of an Interrupt event with a time after the start
\* has been written, no earlier than that time.
C2_Witness ==
    \E i \in 1..Len(dev) :
      /\ dev[i].type = "PS2EMU_CMD_SEND_INTERRUPT"
      /\ dev[i].rc = "G_IO_STATUS_NORMAL"
      /\ EventBySeq(dev[i].seq).time > 0
      /\ dev[i].elapsed = EventBySeq(dev[i].seq).time

\* A list of exactly two Interrupt events with times t1 <= t2.
TwoInterrupts(list) ==
    /\ Len(list) = 2
    /\ list[1].type = "interrupt"
    /\ list[2].type = "interrupt"
    /\ list[1].time <= list[2].time

TheLists == {event_list, init_event_list, main_event_list}

\* Frame i of dev went out for event e.
SentFor(i, e) ==
    /\ dev[i].type = "PS2EMU_CMD_SEND_INTERRUPT"
    /\ dev[i].seq = e.seq
    /\ dev[i].rc = "G_IO_STATUS_NORMAL"

\* C3 as claimed: replaying two Interrupt events with times t1 <= t2, the
\* second frame goes out after the first and no earlier than t2 - t1 after it.
C3_GapAfterFirst ==
    \A list \in TheLists : TwoInterrupts(list) =>
      \A i, j \in 1..Len(dev) :
        (SentFor(i, list[1]) /\ SentFor(j, list[2])) =>
          /\ i < j
          /\ dev[j].elapsed - dev[i].elapsed >= list[2].time - list[1].time

\* C3 amended: replaying two Interrupt events with times t1 <= t2, the
\* second frame goes out after the first, and no earlier than t2 after the
\* start timestamp of the replay_event_list call (the first frame may itself
\* be later than t1, so the gap between the two may be smaller than t2 - t1).
C3_SecondNotBeforeItsTime ==
    \A list \in TheLists : TwoInterrupts(list) =>
      \A i, j \in 1..Len(dev) :
        (SentFor(i, list[1]) /\ SentFor(j, list[2])) =>
          /\ i < j
          /\ dev[j].elapsed >= dev[i].elapsed
          /\ dev[j].elapsed >= list[2].time

\* C3 witness: both frames of a list of two Interrupt events with times
\* t1 < t2 went out, the second one at t2 after the start.
C3_Witness ==
    \E list \in TheLists :
      /\ TwoInterrupts(list)
      /\ list[1].time < list[2].time
      /\ \E i, j \in 1..Len(dev) :
           /\ SentFor(i, list[1])
           /\ SentFor(j, list[2])
           /\ dev[j].elapsed = list[2].time

\* The indices of dev where a SEND_INTERRUPT frame was written.
InterruptFrames == {i \in 1..Len(dev) : dev[i].type = "PS2EMU_CMD_SEND_INTERRUPT"}

\* The places of the Interrupt events in the replay order.
InterruptEvents == {k \in 1..Len(ReplayOrder) : ReplayOrder[k].type = "interrupt"}

\* C4: for an Interrupt event the endpoint sees one write of the frame
\* {SEND_INTERRUPT, event.data} and no read; once the replay has ended
\* without I/O failure there are as many SEND_INTERRUPT frames as Interrupt
\* events in the sequences replayed.
C4_OneFramePerInterrupt ==
    /\ \A i \in 1..Len(dev) :
         (dev[i].seq # 0 /\ EventBySeq(dev[i].seq).type = "interrupt") =>
           /\ dev[i].op = "write"
           /\ dev[i].type = "PS2EMU_CMD_SEND_INTERRUPT"
           /\ dev[i].data = EventBySeq(dev[i].seq).data
    /\ \A i, j \in InterruptFrames : dev[i].seq = dev[j].seq => i = j
    /\ pc = "exit0" => Cardinality(InterruptFrames) = Cardinality(InterruptEvents)

\* C4 witness: a replay of two Interrupt events with different data bytes
\* has ended without I/O failure.
C4_Witness ==
    /\ pc = "exit0"
    /\ Cardinality(InterruptFrames) = 2
    /\ \E i, j \in InterruptFrames : dev[i].data # dev[j].data

\* C5: for an event that is no Interrupt the endpoint sees one read of a
\* byte and no write; after a read that succeeded the replay is past the
\* event and has not failed, whatever byte was read.
C5_ReceiveGoesOn ==
    /\ \A i \in 1..Len(dev) :
         (dev[i].seq # 0 /\ EventBySeq(dev[i].seq).type # "interrupt") =>
           dev[i].op = "read"
    /\ \A i, j \in 1..Len(dev) :
         (dev[i].op = "read" /\ dev[j].op = "read" /\ dev[i].seq = dev[j].seq) => i = j
    /\ (dev # <<>> /\ dev[Len(dev)].op = "read"
                   /\ dev[Len(dev)].rc = "G_IO_STATUS_NORMAL") =>
         /\ pc \notin {"exit1", "crash"}
         /\ error = "none"
         /\ (l = <<>> \/ Head(l).seq # dev[Len(dev)].seq)

\* C5 witness: a read returned a byte other than the event's, and the replay
\* went on to the next event and to its end.
C5_Witness ==
    /\ pc = "exit0"
    /\ \E i \in 1..Len(dev) :
         /\ i < Len(dev)
         /\ dev[i].op = "read"
         /\ dev[i].rc = "G_IO_STATUS_NORMAL"
         /\ dev[i].data # EventBySeq(dev[i].seq).data

\* C6 as claimed: a write or read that fails is the last I/O action on the
\* endpoint, and the process ends with an error message and exit code 1.
C6_FailureAborts ==
    \A i \in 1..Len(dev) :
      dev[i].rc # "G_IO_STATUS_NORMAL" =>
        /\ i = Len(dev)
        /\ pc = "exit1"
        /\ error # "none"

\* C7: a log whose header declares a version above PS2EMU_LOG_VERSION is
\* rejected with the version error, with no line read after the header, no
\* event parsed and nothing written to the endpoint.
C7_TooNewRejected ==
    (/\ header.kind = "version"
     /\ header.n > PS2EMU_LOG_VERSION
     /\ pc # "parse_log_version") =>
      /\ pc = "exit1"
      /\ error = "TooNew"
      /\ nlines = 0
      /\ nevents = 0
      /\ AllEvents = {}
      /\ dev = <<>>

\* C7 witness: a log declaring a version above the supported one was rejected.
C7_Witness ==
    /\ header.kind = "version"
    /\ header.n = PS2EMU_LOG_VERSION + 1
    /\ pc = "exit1"

\* The seq numbers of a list, in list order.
SeqsOf(list) == [i \in 1..Len(list) |-> list[i].seq]

\* Every event of the list stands after a marker of the given keyword.
AllUnder(list, keyword) == \A i \in 1..Len(list) : list[i].sect = keyword

\* C8 as claimed: every event parse_events has parsed is in exactly one
\* sequence, the one the log format selects: the unnamed sequence in a
\* version < 1 log, and in a version >= 1 log the init or main sequence, as
\* named by the last section marker before the event's line; none is dropped
\* and parse_events does not fault.
C8_RoutedBySection ==
    /\ pc # "crash"
    /\ Len(event_list) + Len(init_event_list) + Len(main_event_list) = nevents
    /\ Cardinality({e.seq : e \in AllEvents}) = nevents
    /\ log_version < 1 => Len(event_list) = nevents
    /\ log_version >= 1 =>
         /\ event_list = <<>>
         /\ AllUnder(init_event_list, "Init")
         /\ AllUnder(main_event_list, "Main")

\* seq grows from the head of the list to its end: the events stand in the
\* order of their lines.
InLineOrder(list) ==
    \A i, j \in 1..Len(list) : i < j => list[i].seq < list[j].seq

\* C9: once parse_events has returned at end of input, each sequence of the
\* log's format (init and main in a version >= 1 log, the unnamed one in a
\* version < 1 log) holds its events in the order of their lines in the log,
\* however often the section markers alternate.
C9_ListsInLineOrder ==
    pc = "open" =>
      IF log_version >= 1
        THEN InLineOrder(init_event_list) /\ InLineOrder(main_event_list)
        ELSE InLineOrder(event_list)

\* C9 witness: parse_events has returned for a version >= 1 log whose events
\* stand under the markers Init, Main, Init: the first and third are in the
\* init sequence in that order, the second in the main sequence.
C9_Witness ==
    /\ pc = "open"
    /\ log_version >= 1
    /\ SeqsOf(init_event_list) = <<1, 3>>
    /\ SeqsOf(main_event_list) = <<2>>
    /\ AllUnder(init_event_list, "Init")
    /\ AllUnder(main_event_list, "Main")

\* The last section line parse_events read holds no section keyword.
UnknownMarker == marker \notin {"none", "Init", "Main"}

\* C10: in a version >= 1 log a section line whose keyword names no section
\* makes parse_events fail at that line: the process is at its error exit,
\* no list is replayed and nothing has been written to the endpoint; from
\* there on no line is read, no event parsed and nothing written.
C10_UnknownMarkerFails ==
    /\ [](UnknownMarker =>
            /\ log_version >= 1
            /\ pc = "exit1"
            /\ replaying = "none"
            /\ dev = <<>>)
    /\ [][UnknownMarker => UNCHANGED <<pc, nlines, nevents, listVars, dev>>]_vars

\* C10 witness: parse_events has failed at a section line with an unknown
\* keyword that came after an event was parsed.
C10_Witness ==
    /\ marker = "Bogus"
    /\ pc = "exit1"
    /\ nevents = 1
    /\ Len(init_event_list) = 1

\* record has not yet entered its second loop.
BeforeSteady ==
    pc \in {"detach", "write_marker", "enable_debug", "reattach", "sigaction",
            "record", "discard"}

\* C11: with the session marker written, record prints no event until it has
\* read a start marker line that carries this run's start time: nothing is
\* printed before the second loop, the second loop is entered only from the
\* first by reading a "ps2emu: " line whose start time equals start_time, and
\* an event line or a start marker with another time read before that leaves
\* record in its first loop with nothing printed.
C11_NoEventBeforeMarker ==
    /\ [](BeforeSteady => (out = <<>> /\ ~call.made))
    /\ [][(pc # "steady" /\ pc' = "steady") =>
            /\ pc = "discard"
            /\ rec_start_time # 0
            /\ current_line'.src = "ps2emu: "
            /\ current_line'.shape = "start"
            /\ current_line'.start_time = rec_start_time]_vars
    /\ [][(pc = "discard" /\ nread' = nread + 1
             /\ (current_line'.src # "ps2emu: "
                 \/ current_line'.shape # "start"
                 \/ current_line'.start_time # rec_start_time)) =>
            (pc' = "discard" /\ out' = <<>>)]_vars

\* C11 witness: record has read an event line and then a start marker of
\* another run, and is still in its first loop.
C11_Witness ==
    /\ pc = "discard"
    /\ nread = 2
    /\ res.event.set # {}
    /\ current_line.src = "ps2emu: "
    /\ current_line.shape = "start"
    /\ current_line.start_time # rec_start_time
    /\ out = <<>>

\* The process has ended on its own (no signal ended it).
Returned == pc \in {"exit0", "exit1"} /\ signalled = "none"

\* C12 as claimed: a structural parse error is fatal to the recording:
\* record fails and the process ends with exit code 1, and process_event is
\* not called for the line that raised it, so nothing is printed for it.
C12_StructuralErrorFatal ==
    /\ (error = "Input" /\ Returned) => pc = "exit1"
    /\ [][(error = "none" /\ error' = "Input") =>
            (call' = call /\ out' = out)]_vars

\* C13: with the keyboard not recorded and the auxiliary port recorded,
\* process_event prints no event of type kbd-data and no interrupt with the
\* keyboard port, and prints every interrupt with another port.
C13_KeyboardSuppressed ==
    (~record_kbd /\ record_aux /\ call.made) =>
      /\ call.event.type = "kbd-data" => ~call.printed
      /\ (call.event.type = "interrupt" /\ call.event.port = KEYBOARD_PORT) =>
           ~call.printed
      /\ (call.event.type = "interrupt" /\ call.event.port # KEYBOARD_PORT) =>
           /\ call.printed
           /\ out # <<>>
           /\ out[Len(out)] = ps2_event_to_string(call.event)

\* C13 witness: with the keyboard not recorded, an interrupt of the auxiliary
\* port was printed and then a kbd-data event was not.
C13_Witness ==
    /\ ~record_kbd
    /\ record_aux
    /\ call.made
    /\ call.event.type = "kbd-data"
    /\ ~call.printed
    /\ Len(out) = 1
    /\ out[1].type = "interrupt"
    /\ out[1].shape = "normal"
    /\ out[1].port # KEYBOARD_PORT

\* C14: with the auxiliary port not recorded and the keyboard recorded,
\* process_event prints an event exactly when it is of type kbd-data or an
\* interrupt with the keyboard port: interrupts of other ports and command,
\* parameter and return events are not printed.
C14_OnlyKeyboardPrinted ==
    (record_kbd /\ ~record_aux /\ call.made) =>
      /\ call.printed <=>
           \/ call.event.type = "kbd-data"
           \/ (call.event.type = "interrupt" /\ call.event.port = KEYBOARD_PORT)
      /\ call.printed => (out # <<>> /\ out[Len(out)] = ps2_event_to_string(call.event))

\* C14 witness: with the auxiliary port not recorded, a kbd-data event was
\* printed and then a command event was not.
C14_Witness ==
    /\ record_kbd
    /\ ~record_aux
    /\ call.made
    /\ call.event.type = "command"
    /\ ~call.printed
    /\ Len(out) = 1
    /\ out[1].type = "kbd-data"

\* C15: when the read of /dev/kmsg reports the end of the stream while record
\* is still looking for this run's start marker, record fails with the
\* "no events" error, the process ends with exit code 1, and nothing has been
\* printed.
C15_EofBeforeMarker ==
    /\ [][(pc = "discard" /\ record_rc' = "G_IO_STATUS_EOF") =>
            /\ pc' = "exit1"
            /\ error' = "NoEvents"
            /\ out' = <<>>
            /\ ~call'.made]_vars
    /\ [](error = "NoEvents" => (pc = "exit1" /\ out = <<>>))

\* C15 witness: the stream ended after an event line and the start marker of
\* another run, and record failed with the "no events" error.
C15_Witness ==
    /\ pc = "exit1"
    /\ record_rc = "G_IO_STATUS_EOF"
    /\ error = "NoEvents"
    /\ nread = 2
    /\ res.event.set # {}
    /\ res.start_time \notin {0, rec_start_time}

\* C16 as claimed: a data-bearing interrupt line with fewer than two
\* arguments after the kind, or with a port or irq argument that is no
\* decimal number, raises the input error and gives no event.
C16_BadInterruptArgsRejected ==
    (/\ nread > 0
     /\ record_rc = "G_IO_STATUS_NORMAL"
     /\ current_line.src = "i8042: "
     /\ current_line.shape = "normal"
     /\ current_line.kind = "interrupt"
     /\ \/ current_line.argc < 3
        \/ current_line.port_arg.kind = "text"
        \/ current_line.irq_arg.kind = "text") =>
      /\ error = "Input"
      /\ "has_data" \notin res.event.set

\* The line read in this step is one the recorder skips: it carries neither
\* source prefix, or it is an i8042 line of neither event shape, or a ps2emu
\* line that is no start marker.
SkippedLineRead ==
    /\ nread' = nread + 1
    /\ parse_next_message(res, current_line').got = "skip"

\* C17: a line with neither source prefix, and a hardware-debug line that
\* matches neither event shape and raises no structural error, is skipped
\* silently: reading it sets no error, prints nothing, calls process_event for
\* nothing and leaves record where it is; and what record prints is, at every
\* point, what the reference run prints that is shown the same stream without
\* the skipped lines.
C17_SkippedLinesLeaveNoTrace ==
    /\ [][SkippedLineRead =>
            /\ error' = "none"
            /\ pc' = pc
            /\ out' = out
            /\ call' = call]_vars
    /\ [](out = out_ref)

\* C17 witness: an i8042 line of neither shape, which left its time and data
\* byte in the event structure, was skipped, and the data-less interrupt read
\* after it was printed as in the reference run, whose structure never held
\* a data byte.
C17_Witness ==
    /\ pc = "steady"
    /\ error = "none"
    /\ "data" \in res.event.set
    /\ "data" \notin ref.event.set
    /\ Len(out) = 1
    /\ out[1].shape = "nodata"
    /\ out_ref = out

\* C18 as claimed: a log whose first line is no version header is taken as a
\* version 0 log: it is not rejected, its lines are parsed into the unnamed
\* sequence and that sequence is replayed.
C18_HeaderlessIsLegacy ==
    (header.kind = "nomatch" /\ pc # "parse_log_version") =>
      /\ log_version = 0
      /\ error # "InvalidVersion"
      /\ pc # "exit1"

\* C19 as claimed: a read of /dev/kmsg that fails while record is in its
\* second loop is fatal: record fails and the process ends with exit code 1.
C19_ReadFailureFatal ==
    (/\ Returned
     /\ record_rc = "G_IO_STATUS_ERROR"
     /\ error = "IO") =>
      pc = "exit1"

\* C20 as claimed: once "1" has been written to the i8042 debug parameter, a
\* SIGINT, SIGTERM or SIGHUP delivered at any later point has "0" written to
\* it exactly once before the process ends: the process does not end on the
\* signal with the parameter left at "1".
C20_SignalTurnsDebugOff ==
    (signalled # "none" /\ pc \in {"exit0", "killed"}) =>
      /\ debug = "0"
      /\ off_writes <= 1

\* C21 as claimed: in a version >= 1 log parse_events appends an event only
\* to a sequence that a section marker read earlier in the log has selected:
\* an event line before any Init or Main marker is not stored through the
\* destination pointer while that pointer was never assigned.
C21_DestinationSelected ==
    [][(log_version >= 1 /\ nevents' = nevents + 1) =>
         /\ marker \in {"Init", "Main"}
         /\ event_list_dest \in {"init_event_list", "main_event_list"}
         /\ pc' # "crash"]_vars

\* The fields of the event structure that process_event reads to decide.
FieldsDecidedOn(event) ==
    IF event.type = "interrupt" THEN {"type", "port"} ELSE {"type"}

\* C22 as claimed: what the recorder prints for an event line depends on
\* that line and the two flags alone: whenever an event goes to
\* process_event, the type and (for an interrupt) the port it decides on were
\* assigned by the parse of the current line, not left in res by a line
\* parsed earlier.
C22_DecisionFromCurrentLine ==
    [][(/\ pc = "steady"
        /\ nread' = nread + 1
        /\ parse_next_message(res, current_line').got = "event") =>
         \A f \in FieldsDecidedOn(call'.event) :
           f \in res.event.set =>
             f \in parse_next_message(UnsetRes, current_line').res.event.set]_vars

\* The names under which a parse of the log fails.
ParseErrors ==
    {"InvalidVersion", "NoEvents", "TooNew", "InvalidEvent", "InvalidSection",
     "InvalidLine"}

\* C23: the endpoint sees one SET_PORT_TYPE frame first, then one BEGIN
\* frame, then only the frames and reads of the replayed events; an event's
\* frame or read comes only after both setup frames were written with
\* success; and nothing is written while the log is parsed or after version
\* parsing or event parsing has failed.
C23_ProtocolOrder ==
    /\ \A i \in 1..Len(dev) :
         /\ (dev[i].type = "PS2EMU_CMD_SET_PORT_TYPE") <=> (i = 1)
         /\ (dev[i].type = "PS2EMU_CMD_BEGIN") <=> (i = 2)
         /\ i > 2 => /\ dev[i].seq # 0
                     /\ \/ dev[i].op = "read"
                        \/ dev[i].type = "PS2EMU_CMD_SEND_INTERRUPT"
         /\ i > 1 => dev[i - 1].rc = "G_IO_STATUS_NORMAL"
    /\ pc \in {"parse_log_version", "parse_events", "open", "set_port_type"}
         => dev = <<>>
    /\ error \in ParseErrors => (dev = <<>> /\ pc \in {"parse_events", "exit1"})
    /\ (pc = "crash" /\ event_list_dest = "wild") => dev = <<>>

\* C23 witness: a replay has run to its end: the two setup frames, then the
\* frame of an Interrupt event and the read of another event.
C23_Witness ==
    /\ pc = "exit0"
    /\ Len(dev) = 4
    /\ dev[1].type = "PS2EMU_CMD_SET_PORT_TYPE"
    /\ dev[2].type = "PS2EMU_CMD_BEGIN"
    /\ dev[3].type = "PS2EMU_CMD_SEND_INTERRUPT"
    /\ dev[4].op = "read"

(* ------------------------------ termination ---------------------------- *)

\* The lines of the logs of the termination check: the events carry data 0
\* (the replay never branches on an event's data byte).
LiveLines == LinesOf(Times, {0})

\* The steps of the program itself, on logs of up to MaxLines such lines.
\* The process is always scheduled again, every g_usleep ends, and every
\* read or write on the endpoint returns.
ProgramStep ==
    \/ ParseLogVersion
    \/ ParseEventLine(LiveLines, MaxLines, MaxEvents)
    \/ SkipEventLine(LiveLines, MaxLines)
    \/ BadEventLine(LiveLines, MaxLines)
    \/ ParseSectionLine(LiveLines, MaxLines)
    \/ InvalidLine(LiveLines, MaxLines)
    \/ EndOfInput
    \/ ReadError
    \/ OpenDevice
    \/ SetupDevice
    \/ ReplayEventList
    \/ ReadClock
    \/ Usleep
    \/ SendInterrupt
    \/ SimulateReceive
    \/ ReplayReturn

\* The program's steps, and the passing of time.
NextLive ==
    \/ ProgramStep
    \/ Tick

\* The replayer under the proviso that sleeps end and blocking calls return.
SpecLive == Init /\ [][NextLive]_vars /\ WF_vars(ProgramStep)

\* The process has ended.
Ended == pc \in {"exit0", "exit1", "crash"}

\* The replay stands at an event whose byte is to be read from the endpoint.
AtReceive == pc = "loop" /\ l # <<>> /\ Head(l).type # "interrupt"

\* C24: when sleeps end and blocking reads return, the replay of a finite
\* log comes to an end; and while the replay stands at a receive event,
\* nothing but the return of the read on the endpoint moves it: until then
\* the cursor stays at the event, nothing is written or read and the replay
\* does not end, however much time passes.
C24_TerminatesUnlessBlocked ==
    /\ <>Ended
    /\ [][AtReceive =>
            \/ UNCHANGED <<pc, l, replaying, error, dev>>
            \/ /\ Len(dev') = Len(dev) + 1
               /\ dev'[Len(dev')].op = "read"
               /\ dev'[Len(dev')].seq = Head(l).seq]_vars

\* C24 witness: a replay that slept before an Interrupt frame and then read
\* the byte of a receive event has ended with success, after time passed.
C24_Witness ==
    /\ pc = "exit0"
    /\ Len(dev) = 4
    /\ dev[3].type = "PS2EMU_CMD_SEND_INTERRUPT"
    /\ dev[4].op = "read"
    /\ now - start_time > 0
====
